---- MODULE Spec2Model ----
(***************************************************************************)
(* Model of qdrant_client.migrate.migrate (the collection migrator) and of *)
(* qdrant_client.conversions.conversion (the REST <-> gRPC converter).     *)
(*                                                                         *)
(* The migrator is a sequential script over two client handles.  Every     *)
(* client call is one step; `calls` records the calls in the order they    *)
(* are issued.  The clients themselves (get_collections, get_collection,   *)
(* recreate_collection, create_payload_index, scroll, upload_records) are  *)
(* not part of the two source files; they are modelled from the client     *)
(* capability interface the specification describes.                       *)
(***************************************************************************)
EXTENDS Integers, Sequences, FiniteSets, TLC

\* ------------------------------------------------------------------ bounds
MaxRequested == 2     \* longest requested list of a whole-run scenario
MaxPoints == 5        \* most points in the collection of a single-collection scenario
MaxBatch == 3         \* largest batch_size of a single-collection scenario
MaxFaults == 1        \* client faults the environment may inject in one run
RunPoints == 1        \* points per source collection in a whole-run scenario

\* migrate(..., batch_size: int = 100)
DefaultBatchSize == 100

\* ------------------------------------------------------------ value domains
Names == {"a", "b", "c"}

\* Python's None, for the optional values that are strings in this model
None == "None"

\* class MigrationCollisionAction; "Other" stands for any value that is
\* neither RAISE nor SKIP nor RECREATE
RAISE == "Raise"
RECREATE == "Recreate"
SKIP == "Skip"
MigrationCollisionAction == {RAISE, RECREATE, SKIP}
CollisionActions == MigrationCollisionAction \cup {"Other"}

Range(s) == {s[i] : i \in 1..Len(s)}

SeqsUpTo(S, n) == UNION {[1..k -> S] : k \in 0..n}

\* A point (record) of a collection: its id and the collection it was
\* written to first, which stands for its vector and payload.
Point(i, origin) == [id |-> i, vector |-> origin]

\* The n points of a collection, in the order scroll yields them (by id).
Points(n, origin) == [i \in 1..n |-> Point(i - 1, origin)]

\* models.PayloadIndexInfo entries of a payload schema; a Dict keeps its
\* insertion order, so a schema is a sequence of entries with distinct keys.
FieldType(f) == IF f = "f" THEN "keyword" ELSE "integer"
FieldParams(f) == IF f = "f" THEN "KeywordIndexParams" ELSE "IntegerIndexParams"
FieldInfos ==
    {[field_name |-> f, type |-> FieldType(f), params |-> p] :
        f \in {"f", "g"}, p \in {None}} \cup
    {[field_name |-> f, type |-> FieldType(f), params |-> FieldParams(f)] :
        f \in {"f", "g"}}
PayloadSchemas ==
    {s \in SeqsUpTo(FieldInfos, 2) :
        \A i, j \in 1..Len(s) : i # j => s[i].field_name # s[j].field_name}

\* A collection as a client reports it.  `config` stands for the whole of
\* CollectionInfo.config (params, hnsw, optimizer, wal, quantization).
Absent == [exists |-> FALSE, config |-> None, payload_schema |-> <<>>, points |-> <<>>]
SourceCollection(name, n, schema) ==
    [exists |-> TRUE, config |-> "config_" \o name, payload_schema |-> schema,
     points |-> Points(n, name)]
\* What a destination collection holds before the run when it exists.
OldCollection ==
    [exists |-> TRUE, config |-> "config_old",
     payload_schema |-> <<[field_name |-> "old", field_schema |-> "keyword"]>>,
     points |-> <<Point(0, "old")>>]

\* The optional cursor of scroll: <<>> is None, <<i>> is the point id i.
NoOffset == <<>>

NoError == [type |-> None, what |-> None, names |-> {}]

\* The value select_source_collections returns: the caller's list, or the
\* set of the source's collection names.
AsList(l) == [kind |-> "list", list |-> l, set |-> Range(l)]
AsSet(s) == [kind |-> "set", list |-> <<>>, set |-> s]

VARIABLES
    source,                  \* source_client: name -> collection
    dest,                    \* dest_client: name -> collection
    dest_at_start,           \* dest as it was when the run began
    requested,               \* argument collection_names: [is_none, names]
    on_collision_action,     \* argument on_collision_action
    batch_size,              \* argument batch_size
    faults,                  \* faults the environment may still inject
    pc,                      \* position of the run
    loop,                    \* which for-loop of migrate is running
    collection_names,        \* migrate: collection_names after line 36
    collisions,              \* migrate: collisions
    absent_dest_collections, \* migrate: absent_dest_collections
    iter,                    \* names the running for-loop has yet to yield
    collection_name,         \* the loop variable
    src_payload_schema,      \* recreate_collection: src_payload_schema
    src_config,              \* recreate_collection: src_config
    schema_idx,              \* recreate_payload_schema: position in .items()
    records,                 \* migrate_collection: records
    next_offset,             \* migrate_collection: next_offset
    error,                   \* the exception that ended the run
    calls,                   \* every client call issued, in order
    conv                     \* a conversion in progress (converter scenarios)

vars == <<source, dest, dest_at_start, requested, on_collision_action, batch_size,
          faults, pc, loop, collection_names, collisions, absent_dest_collections,
          iter, collection_name, src_payload_schema, src_config, schema_idx,
          records, next_offset, error, calls, conv>>

args == <<source, dest_at_start, requested, on_collision_action, batch_size>>
locals == <<collection_names, collisions, absent_dest_collections>>
rc_locals == <<src_payload_schema, src_config, schema_idx>>
mc_locals == <<records, next_offset>>


\* --------------------------------------------------- the client interface
\* get_collections().collections, as the set of their names
get_collections(client) == {c \in Names : client[c].exists}

\* get_collection(name).vectors_count
vectors_count(collection) == Len(collection.points)

Min(a, b) == IF a < b THEN a ELSE b

\* scroll(name, offset, limit, with_vectors=True): the page of at most
\* `limit` points starting at the point with id `offset` (at the first point
\* without an offset), and the id of the point after the page, or None.
scroll(collection, offset, limit) ==
    LET from == IF offset = NoOffset
                THEN collection.points
                ELSE SelectSeq(collection.points, LAMBDA p : p.id >= offset[1])
    IN  [records |-> SubSeq(from, 1, Min(limit, Len(from))),
         next_offset |-> IF Len(from) > limit THEN <<from[limit + 1].id>> ELSE NoOffset]

\* recreate_collection(name, ...): drop the collection if it exists and
\* create it empty with the given settings.
client_recreate_collection(client, name, config) ==
    [client EXCEPT ![name] =
        [exists |-> TRUE, config |-> config, payload_schema |-> <<>>, points |-> <<>>]]

\* create_payload_index(name, field_name, field_schema)
client_create_payload_index(client, name, field_name, field_schema) ==
    [client EXCEPT ![name].payload_schema =
        Append(SelectSeq(@, LAMBDA e : e.field_name # field_name),
               [field_name |-> field_name, field_schema |-> field_schema])]

\* upload_records(name, records): upsert the records by id, in order.
client_upload_records(client, name, recs) ==
    LET ids == {recs[i].id : i \in 1..Len(recs)}
    IN  [client EXCEPT ![name].points =
            SelectSeq(@, LAMBDA p : p.id \notin ids) \o recs]

\* One entry of `calls`.
Call(client, op, name, arg) == [client |-> client, op |-> op, name |-> name, arg |-> arg]

\* -------------------------------------------------------------- migrate.py
\* `if collection_names is not None:` in place of the truth test
Truthy_not_none(req) == ~req.is_none

\* `if collection_names:` on a list or None: None and [] are both false
Truthy(req) == ~req.is_none /\ Len(req.names) > 0

\* select_source_collections with `any` where the source has `all`
select_source_collections_any(source_collection_names, req) ==
    IF Truthy(req)
    THEN IF \E i \in 1..Len(req.names) : req.names[i] \in source_collection_names
         THEN [ok |-> TRUE, value |-> AsList(req.names), missing |-> {}]
         ELSE [ok |-> FALSE, value |-> AsList(req.names),
               missing |-> Range(req.names) \ source_collection_names]
    ELSE [ok |-> TRUE, value |-> AsSet(source_collection_names), missing |-> {}]

\* select_source_collections returning set(collection_names)
select_source_collections_as_set(source_collection_names, req) ==
    IF Truthy(req)
    THEN IF \A i \in 1..Len(req.names) : req.names[i] \in source_collection_names
         THEN [ok |-> TRUE, value |-> AsSet(Range(req.names)), missing |-> {}]
         ELSE [ok |-> FALSE, value |-> AsList(req.names),
               missing |-> Range(req.names) \ source_collection_names]
    ELSE [ok |-> TRUE, value |-> AsSet(source_collection_names), missing |-> {}]

\* select_source_collections: the value returned, or the failed assertion
select_source_collections(source_collection_names, req) ==
    IF Truthy(req)
    THEN IF \A i \in 1..Len(req.names) : req.names[i] \in source_collection_names
         THEN [ok |-> TRUE, value |-> AsList(req.names), missing |-> {}]
         ELSE [ok |-> FALSE, value |-> AsList(req.names),
               missing |-> Range(req.names) \ source_collection_names]
    ELSE [ok |-> TRUE, value |-> AsSet(source_collection_names), missing |-> {}]

\* find_collisions: dest_collection_names & set(collection_names)
find_collisions(dest_collection_names, names) == dest_collection_names \cap names.set

\* set(collection_names) without the subtraction of the collisions
AbsentDestCollections_all(names, colliding) == names.set

\* set(collection_names) - set(collisions)
AbsentDestCollections(names, colliding) == names.set \ colliding

\* the RAISE branch testing for the wrong member
RaiseBranch_wrong_member(colliding, action) == colliding # {} /\ action = RECREATE

\* `if collisions and on_collision_action == MigrationCollisionAction.RAISE`
RaiseBranch(colliding, action) == colliding # {} /\ action = RAISE

\* the SKIP branch testing for the wrong member
SkipBranch_wrong_member(colliding, action) == colliding # {} /\ action = RAISE

\* the SKIP branch without its test of the action
SkipBranch_any_action(colliding, action) == colliding # {}

\* `elif collisions and on_collision_action == MigrationCollisionAction.SKIP`
SkipBranch(colliding, action) == colliding # {} /\ action = SKIP

\* the field schema always taken from the bare type
field_schema_type_only(field_info) == field_info.type

\* field_info.type if field_info.params is None else field_info.params
field_schema(field_info) ==
    IF field_info.params = None THEN field_info.type ELSE field_info.params

\* `while next_offset:` on an Optional point id
OffsetTruthy(offset) == offset # NoOffset /\ offset[1] # 0

\* the assertion accepting a destination that holds fewer points
CountsEqual_at_least(source_count, dest_count) == source_count >= dest_count

\* the assertion stripped
CountsEqual_stripped(source_count, dest_count) == TRUE

\* `assert source_client_vectors_count == dest_client_vectors_count`
CountsEqual(source_count, dest_count) == source_count = dest_count

Fail(type, what, names) == [type |-> type, what |-> what, names |-> names]

\* migrate, line 36: select_source_collections(source_client, collection_names)
SelectSourceCollections ==
    /\ pc = "select"
    /\ LET r == select_source_collections(get_collections(source), requested)
       IN  /\ calls' = Append(calls, Call("source", "get_collections", None, <<>>))
           /\ IF r.ok
              THEN /\ collection_names' = r.value
                   /\ pc' = "find_collisions"
                   /\ error' = error
              ELSE /\ collection_names' = collection_names
                   /\ pc' = "failed"
                   /\ error' = Fail("AssertionError", "missing", r.missing)
    /\ UNCHANGED <<args, dest, faults, loop, collisions, absent_dest_collections, iter,
                   collection_name, rc_locals, mc_locals, conv>>

\* migrate, lines 37-38: find_collisions and absent_dest_collections
FindCollisions ==
    /\ pc = "find_collisions"
    /\ calls' = Append(calls, Call("dest", "get_collections", None, <<>>))
    /\ collisions' = find_collisions(get_collections(dest), collection_names)
    /\ absent_dest_collections' = AbsentDestCollections(collection_names, collisions')
    /\ pc' = "policy"
    /\ UNCHANGED <<args, dest, faults, loop, collection_names, iter, collection_name,
                   rc_locals, mc_locals, error, conv>>

\* migrate, lines 40-45: the collision policy, then the first for-loop starts
CollisionPolicy ==
    /\ pc = "policy"
    /\ IF RaiseBranch(collisions, on_collision_action)
       THEN /\ pc' = "failed"
            /\ error' = Fail("ValueError", "collision", collisions)
            /\ UNCHANGED <<collisions, loop, iter>>
       ELSE /\ collisions' = IF SkipBranch(collisions, on_collision_action)
                             THEN {} ELSE collisions
            /\ pc' = "for"
            /\ loop' = "absent"
            /\ iter' = absent_dest_collections
            /\ error' = error
    /\ UNCHANGED <<args, dest, faults, collection_names, absent_dest_collections,
                   collection_name, rc_locals, mc_locals, calls, conv>>

\* migrate, lines 45-46 and 49-50 with recreate_collection, lines 79-81: the
\* loop yields its next name and the source collection's info is fetched
ForNext ==
    /\ pc = "for"
    /\ iter # {}
    /\ \E name \in iter :
        /\ iter' = iter \ {name}
        /\ collection_name' = name
        /\ calls' = Append(calls, Call("source", "get_collection", name, <<>>))
        /\ src_config' = source[name].config
        /\ src_payload_schema' = source[name].payload_schema
    /\ pc' = "recreate"
    /\ UNCHANGED <<args, dest, faults, loop, locals, schema_idx, mc_locals, error, conv>>

\* migrate, lines 45 and 49: a for-loop is exhausted
ForDone ==
    /\ pc = "for"
    /\ iter = {}
    /\ IF loop = "absent"
       THEN /\ loop' = "collisions"
            /\ iter' = collisions
            /\ pc' = "for"
       ELSE /\ pc' = "done"
            /\ UNCHANGED <<loop, iter>>
    /\ UNCHANGED <<args, dest, faults, locals, collection_name, rc_locals, mc_locals,
                   error, calls, conv>>

\* where recreate_collection goes after a payload index, or after the
\* create-or-replace call: the next field, or on to migrate_collection
AfterIndex(idx, schema) == IF idx <= Len(schema) THEN "payload_schema" ELSE "scroll_first"

\* recreate_collection issuing its create-or-replace call on source_client
RecreateCollection_on_source ==
    /\ pc = "recreate"
    /\ source' = client_recreate_collection(source, collection_name, src_config)
    /\ calls' = Append(calls, Call("source", "recreate_collection", collection_name,
                                   src_config))
    /\ schema_idx' = 1
    /\ pc' = AfterIndex(1, src_payload_schema)
    /\ UNCHANGED <<dest, dest_at_start, requested, on_collision_action, batch_size, faults,
                   loop, locals, iter, collection_name, src_payload_schema, src_config,
                   mc_locals, error, conv>>

\* recreate_collection, lines 83-96: dest_client.recreate_collection
RecreateCollection ==
    /\ pc = "recreate"
    /\ dest' = client_recreate_collection(dest, collection_name, src_config)
    /\ calls' = Append(calls, Call("dest", "recreate_collection", collection_name, src_config))
    /\ schema_idx' = 1
    /\ pc' = AfterIndex(1, src_payload_schema)
    /\ UNCHANGED <<args, faults, loop, locals, iter, collection_name, src_payload_schema,
                   src_config, mc_locals, error, conv>>

\* recreate_payload_schema, lines 104-109: one dest_client.create_payload_index
CreatePayloadIndex ==
    /\ pc = "payload_schema"
    /\ LET field_info == src_payload_schema[schema_idx]
           schema == field_schema(field_info)
       IN  /\ dest' = client_create_payload_index(dest, collection_name,
                                                  field_info.field_name, schema)
           /\ calls' = Append(calls, Call("dest", "create_payload_index", collection_name,
                                          [field_name |-> field_info.field_name,
                                           field_schema |-> schema]))
    /\ schema_idx' = schema_idx + 1
    /\ pc' = AfterIndex(schema_idx + 1, src_payload_schema)
    /\ UNCHANGED <<args, faults, loop, locals, iter, collection_name, src_payload_schema,
                   src_config, mc_locals, error, conv>>

\* source_client.scroll(collection_name, offset=..., limit=batch_size,
\* with_vectors=True), its result bound to records, next_offset
ScrollWith(offset) ==
    LET page == scroll(source[collection_name], offset, batch_size)
    IN  /\ records' = page.records
        /\ next_offset' = page.next_offset
        /\ calls' = Append(calls, Call("source", "scroll", collection_name,
                                       [offset |-> offset, limit |-> batch_size,
                                        records |-> page.records,
                                        next_offset |-> page.next_offset]))
        /\ pc' = "upload"
        /\ UNCHANGED <<args, dest, faults, loop, locals, iter, collection_name, rc_locals,
                       error, conv>>

\* migrate_collection, lines 126-128: the first scroll carries no offset
ScrollFirst ==
    /\ pc = "scroll_first"
    /\ ScrollWith(NoOffset)

\* the later scroll issued without its offset
NextScrollOffset_none(offset) == NoOffset

\* the offset argument of line 132: offset=next_offset
NextScrollOffset(offset) == offset

\* migrate_collection, lines 131-133: a later scroll carries next_offset
ScrollNext ==
    /\ pc = "scroll_next"
    /\ ScrollWith(NextScrollOffset(next_offset))

\* migrate_collection, line 130: `while next_offset:` after an upload
AfterUpload(offset) == IF OffsetTruthy(offset) THEN "scroll_next" ELSE "verify"

\* migrate_collection, lines 129 and 134: dest_client.upload_records.  With a
\* fault left the destination may store the batch without its last record
\* and report nothing.
UploadRecords ==
    /\ pc = "upload"
    /\ calls' = Append(calls, Call("dest", "upload_records", collection_name, records))
    /\ \/ /\ dest' = client_upload_records(dest, collection_name, records)
          /\ faults' = faults
       \/ /\ faults > 0
          /\ records # <<>>
          /\ dest' = client_upload_records(dest, collection_name,
                                           SubSeq(records, 1, Len(records) - 1))
          /\ faults' = faults - 1
    /\ pc' = AfterUpload(next_offset)
    /\ UNCHANGED <<args, loop, locals, iter, collection_name, rc_locals, mc_locals,
                   error, conv>>

\* the count check with its failure swallowed: the mismatch is noted and the
\* for-loop of migrate goes on
VerifyCount_swallowed ==
    /\ pc = "verify"
    /\ calls' = calls \o <<Call("source", "get_collection", collection_name, <<>>),
                           Call("dest", "get_collection", collection_name, <<>>)>>
    /\ pc' = "for"
    /\ error' = IF CountsEqual(vectors_count(source[collection_name]),
                               vectors_count(dest[collection_name]))
                THEN error
                ELSE Fail("AssertionError", "count_mismatch", {collection_name})
    /\ UNCHANGED <<args, dest, faults, loop, locals, iter, collection_name, rc_locals,
                   mc_locals, conv>>

\* migrate_collection, lines 136-140: both vectors_count are fetched and
\* compared; on success control returns to the for-loop of migrate
VerifyCount ==
    /\ pc = "verify"
    /\ calls' = calls \o <<Call("source", "get_collection", collection_name, <<>>),
                           Call("dest", "get_collection", collection_name, <<>>)>>
    /\ IF CountsEqual(vectors_count(source[collection_name]),
                      vectors_count(dest[collection_name]))
       THEN /\ pc' = "for"
            /\ error' = error
       ELSE /\ pc' = "failed"
            /\ error' = Fail("AssertionError", "count_mismatch", {collection_name})
    /\ UNCHANGED <<args, dest, faults, loop, locals, iter, collection_name, rc_locals,
                   mc_locals, conv>>

\* The positions at which a client call of the per-collection phase may raise
FaultPoints == {"recreate", "payload_schema", "scroll_first", "scroll_next", "upload"}

\* A recreate_collection, create_payload_index, scroll or upload_records call
\* raises; nothing in migrate.py catches it, so the run ends there.
ClientFails ==
    /\ pc \in FaultPoints
    /\ faults > 0
    /\ faults' = faults - 1
    /\ pc' = "failed"
    /\ error' = Fail("ClientError", pc, {collection_name})
    /\ UNCHANGED <<args, dest, loop, locals, iter, collection_name, rc_locals, mc_locals,
                   calls, conv>>

\* ---------------------------------------------------------- conversion.py
\* A member of an enum of the REST models (http.*) or of the gRPC models
\* (grpc.*)
Enum(type, member) == [type |-> type, member |-> member]
NoValue == Enum(None, None)

\* What a conversion call produces: a value, or the exception it raises
Ok(value) == [ok |-> TRUE, value |-> value, error |-> None]
Raises(exception) == [ok |-> FALSE, value |-> NoValue, error |-> exception]

EnumEntities == {"Distance", "UpdateStatus", "CollectionStatus", "PayloadSchemaType"}

Members(entity) ==
    CASE entity = "Distance" -> {"Cosine", "Euclid", "Dot"}
      [] entity = "UpdateStatus" -> {"Acknowledged", "Completed"}
      [] entity = "CollectionStatus" -> {"Green", "Yellow", "Red"}
      [] entity = "PayloadSchemaType" -> {"Keyword", "Integer", "Float", "Geo"}

\* The REST models spell their members in capitals (http.Distance.COSINE)
Upper(member) ==
    CASE member = "Cosine" -> "COSINE" [] member = "Euclid" -> "EUCLID"
      [] member = "Dot" -> "DOT"
      [] member = "Acknowledged" -> "ACKNOWLEDGED" [] member = "Completed" -> "COMPLETED"
      [] member = "Green" -> "GREEN" [] member = "Yellow" -> "YELLOW"
      [] member = "Red" -> "RED"
      [] member = "Keyword" -> "KEYWORD" [] member = "Integer" -> "INTEGER"
      [] member = "Float" -> "FLOAT" [] member = "Geo" -> "GEO"

RestValues(entity) == {Enum("http." \o entity, Upper(m)) : m \in Members(entity)}
GrpcValues(entity) == {Enum("grpc." \o entity, m) : m \in Members(entity)}

\* GrpcToRest.convert_distance
GrpcToRest_convert_distance(model) ==
    IF model = Enum("grpc.Distance", "Cosine") THEN Ok(Enum("http.Distance", "COSINE"))
    ELSE IF model = Enum("grpc.Distance", "Euclid") THEN Ok(Enum("http.Distance", "EUCLID"))
    ELSE IF model = Enum("grpc.Distance", "Dot") THEN Ok(Enum("http.Distance", "DOT"))
    ELSE Raises("NotImplementedError")

\* GrpcToRest.convert_update_status
GrpcToRest_convert_update_status(model) ==
    IF model = Enum("grpc.UpdateStatus", "Acknowledged")
    THEN Ok(Enum("http.UpdateStatus", "ACKNOWLEDGED"))
    ELSE IF model = Enum("grpc.UpdateStatus", "Completed")
    THEN Ok(Enum("http.UpdateStatus", "COMPLETED"))
    ELSE Raises("NotImplementedError")

\* class GrpcToRest defines no convert_collection_status (convert_collection_info
\* calls it at line 57): looking the attribute up raises
GrpcToRest_convert_collection_status(model) == Raises("AttributeError")

\* class GrpcToRest defines no convert_payload_schema_type either
GrpcToRest_convert_payload_schema_type(model) == Raises("AttributeError")

\* RestToGrpc.convert_collection_status as first defined, at line 297
RestToGrpc_convert_collection_status_297(model) ==
    IF model = Enum("http.CollectionStatus", "RED")
    THEN Ok(Enum("grpc.CollectionStatus", "Red"))
    ELSE IF model = Enum("http.CollectionStatus", "YELLOW")
    THEN Ok(Enum("grpc.CollectionStatus", "Yellow"))
    ELSE IF model = Enum("http.CollectionStatus", "GREEN")
    THEN Ok(Enum("grpc.CollectionStatus", "Green"))
    ELSE Raises("ValueError")

\* RestToGrpc.convert_update_stats
RestToGrpc_convert_update_stats(model) ==
    IF model = Enum("http.UpdateStatus", "COMPLETED")
    THEN Ok(Enum("grpc.UpdateStatus", "Completed"))
    ELSE IF model = Enum("http.UpdateStatus", "ACKNOWLEDGED")
    THEN Ok(Enum("grpc.UpdateStatus", "Acknowledged"))
    ELSE Raises("ValueError")

\* RestToGrpc.convert_collection_status as defined again, at line 347: it
\* reads model.operation_id and model.status, which only an UpdateResult has
RestToGrpc_convert_collection_status_347(model) ==
    IF model.type = "http.UpdateResult"
    THEN LET status == RestToGrpc_convert_update_stats(model.member.status)
         IN  IF status.ok
             THEN Ok([type |-> "grpc.UpdateResult",
                      member |-> [operation_id |-> model.member.operation_id,
                                  status |-> status.value]])
             ELSE status
    ELSE Raises("AttributeError")

\* The attribute of the class after its body has run: the later `def` of a
\* name replaces the earlier one
RestToGrpc_convert_collection_status(model) ==
    RestToGrpc_convert_collection_status_347(model)

\* RestToGrpc.convert_payload_schema_type
RestToGrpc_convert_payload_schema_type(model) ==
    IF model = Enum("http.PayloadSchemaType", "KEYWORD")
    THEN Ok(Enum("grpc.PayloadSchemaType", "Keyword"))
    ELSE IF model = Enum("http.PayloadSchemaType", "INTEGER")
    THEN Ok(Enum("grpc.PayloadSchemaType", "Integer"))
    ELSE IF model = Enum("http.PayloadSchemaType", "FLOAT")
    THEN Ok(Enum("grpc.PayloadSchemaType", "Float"))
    ELSE IF model = Enum("http.PayloadSchemaType", "GEO")
    THEN Ok(Enum("grpc.PayloadSchemaType", "Geo"))
    ELSE Raises("ValueError")

\* RestToGrpc.convert_distance
RestToGrpc_convert_distance(model) ==
    IF model = Enum("http.Distance", "DOT") THEN Ok(Enum("grpc.Distance", "Dot"))
    ELSE IF model = Enum("http.Distance", "COSINE") THEN Ok(Enum("grpc.Distance", "Cosine"))
    ELSE IF model = Enum("http.Distance", "EUCLID") THEN Ok(Enum("grpc.Distance", "Euclid"))
    ELSE Raises("ValueError")

\* ------------------------------------------- polymorphic values (one-of)
\* A Python scalar with its run-time type ("int", "str", "bool")
PyVal(type, value) == [type |-> type, member |-> value]

\* What a function returns when it falls off its end
PyNone == [type |-> "NoneType", member |-> None]

\* isinstance(model, http.StrictInt) / http.StrictStr / bool
IsStrictInt(model) == model.type = "int"
IsStrictStr(model) == model.type = "str"
IsBool(model) == model.type = "bool"

\* The truth value `if x:` tests: 0, "" and False are false
TruthyInt(x) == x # 0
TruthyStr(x) == x # ""
TruthyBool(x) == x

\* gRPC messages: a field that was not given holds its default
GrpcPointId(num, uuid) ==
    [type |-> "grpc.PointId", member |-> [num |-> num, uuid |-> uuid]]

GrpcMatch(keyword, integer, boolean) ==
    [type |-> "grpc.Match",
     member |-> [keyword |-> keyword, integer |-> integer, boolean |-> boolean]]

\* The variants of a grpc.Condition: each one is populated or not (their
\* contents are converted by functions of their own)
GrpcCondition(field, filter, has_id, is_empty) ==
    [type |-> "grpc.Condition",
     member |-> [field |-> field, filter |-> filter, has_id |-> has_id,
                 is_empty |-> is_empty]]

\* The REST condition models, their content left abstract
RestCondition(type) == [type |-> type, member |-> "content"]

\* The REST match models: the model's class and the scalar it carries
RestMatch(type, value) == [type |-> type, member |-> value]

\* GrpcToRest.convert_condition: no branch is taken when no variant is
\* populated, and the function returns None
GrpcToRest_convert_condition(model) ==
    IF model.member.field THEN Ok(RestCondition("http.FieldCondition"))
    ELSE IF model.member.filter THEN Ok(RestCondition("http.Filter"))
    ELSE IF model.member.has_id THEN Ok(RestCondition("http.HasIdCondition"))
    ELSE IF model.member.is_empty THEN Ok(RestCondition("http.IsEmptyCondition"))
    ELSE Ok(PyNone)

\* RestToGrpc.convert_condition
RestToGrpc_convert_condition(model) ==
    IF model.type = "http.FieldCondition" THEN Ok(GrpcCondition(TRUE, FALSE, FALSE, FALSE))
    ELSE IF model.type = "http.IsEmptyCondition"
    THEN Ok(GrpcCondition(FALSE, FALSE, FALSE, TRUE))
    ELSE IF model.type = "http.HasIdCondition"
    THEN Ok(GrpcCondition(FALSE, FALSE, TRUE, FALSE))
    ELSE IF model.type = "http.Filter" THEN Ok(GrpcCondition(FALSE, TRUE, FALSE, FALSE))
    ELSE Raises("ValueError")

\* GrpcToRest.convert_point_id
GrpcToRest_convert_point_id(model) ==
    IF TruthyInt(model.member.num) THEN Ok(PyVal("int", model.member.num))
    ELSE IF TruthyStr(model.member.uuid) THEN Ok(PyVal("str", model.member.uuid))
    ELSE Raises("ValueError")

\* RestToGrpc.convert_extended_point_id
RestToGrpc_convert_extended_point_id(model) ==
    IF IsStrictInt(model) THEN Ok(GrpcPointId(model.member, ""))
    ELSE IF IsStrictStr(model) THEN Ok(GrpcPointId(0, model.member))
    ELSE Raises("ValueError")

\* GrpcToRest.convert_match
GrpcToRest_convert_match(model) ==
    IF TruthyInt(model.member.integer)
    THEN Ok(RestMatch("http.MatchValue", PyVal("int", model.member.integer)))
    ELSE IF TruthyBool(model.member.boolean)
    THEN Ok(RestMatch("http.MatchValue", PyVal("bool", model.member.boolean)))
    ELSE IF TruthyStr(model.member.keyword)
    THEN Ok(RestMatch("http.MatchValue", PyVal("str", model.member.keyword)))
    ELSE Raises("ValueError")

\* RestToGrpc.convert_match
RestToGrpc_convert_match(model) ==
    IF model.type = "http.MatchValue" /\ IsBool(model.member)
    THEN Ok(GrpcMatch("", 0, model.member.member))
    ELSE IF model.type = "http.MatchValue" /\ IsStrictInt(model.member)
    THEN Ok(GrpcMatch("", model.member.member, FALSE))
    ELSE IF model.type = "http.MatchValue" /\ IsStrictStr(model.member)
    THEN Ok(GrpcMatch(model.member.member, 0, FALSE))
    ELSE IF model.type = "http.MatchKeyword" THEN Ok(GrpcMatch(model.member.member, 0, FALSE))
    ELSE IF model.type = "http.MatchInteger" THEN Ok(GrpcMatch("", model.member.member, FALSE))
    ELSE Raises("ValueError")

OneOfEntities == {"Condition", "Match", "PointId"}

\* Payloads of the one-of values: ids and integers, UUIDs and keywords
Ints == {0, 1}
Strs == {"", "k"}
Uuids == {"u"}

\* The valid REST values of a one-of entity
RestOneOf(entity) ==
    CASE entity = "Condition" ->
            {RestCondition(t) : t \in {"http.FieldCondition", "http.IsEmptyCondition",
                                       "http.HasIdCondition", "http.Filter"}}
      [] entity = "Match" ->
            {RestMatch("http.MatchValue", PyVal("bool", b)) : b \in BOOLEAN} \cup
            {RestMatch("http.MatchValue", PyVal("int", i)) : i \in Ints} \cup
            {RestMatch("http.MatchValue", PyVal("str", s)) : s \in Strs} \cup
            {RestMatch("http.MatchKeyword", PyVal("str", s)) : s \in Strs} \cup
            {RestMatch("http.MatchInteger", PyVal("int", i)) : i \in Ints}
      [] entity = "PointId" ->
            {PyVal("int", i) : i \in Ints} \cup {PyVal("str", u) : u \in Uuids}

\* The gRPC values of a one-of entity with exactly one variant given
GrpcOneOf(entity) ==
    CASE entity = "Condition" ->
            {GrpcCondition(TRUE, FALSE, FALSE, FALSE), GrpcCondition(FALSE, TRUE, FALSE, FALSE),
             GrpcCondition(FALSE, FALSE, TRUE, FALSE), GrpcCondition(FALSE, FALSE, FALSE, TRUE)}
      [] entity = "Match" ->
            {GrpcMatch(s, 0, FALSE) : s \in Strs} \cup {GrpcMatch("", i, FALSE) : i \in Ints}
            \cup {GrpcMatch("", 0, b) : b \in BOOLEAN}
      [] entity = "PointId" ->
            {GrpcPointId(i, "") : i \in Ints} \cup {GrpcPointId(0, u) : u \in Uuids}

\* The gRPC message of a one-of entity with no variant populated
GrpcEmpty(entity) ==
    CASE entity = "Condition" -> GrpcCondition(FALSE, FALSE, FALSE, FALSE)
      [] entity = "Match" -> GrpcMatch("", 0, FALSE)
      [] entity = "PointId" -> GrpcPointId(0, "")

\* A REST value that is none of the variants of a one-of entity
RestEmpty == PyNone

\* ------------------------------------------------------- nested configs
ConfigEntities == {"HnswConfig", "OptimizersConfig", "WalConfig"}

\* Values a configuration field is given
ConfigValues == {1, 2}

Config(type, fields) == [type |-> type, member |-> fields]

HnswFields == [ef_construct : ConfigValues, m : ConfigValues,
               full_scan_threshold : ConfigValues]

OptimizersFields ==
    [default_segment_number : ConfigValues, deleted_threshold : ConfigValues,
     flush_interval_sec : ConfigValues, indexing_threshold : ConfigValues,
     max_optimization_threads : ConfigValues, max_segment_size : ConfigValues,
     memmap_threshold : ConfigValues, payload_indexing_threshold : ConfigValues,
     vacuum_min_vector_number : ConfigValues]

WalFields == [wal_capacity_mb : ConfigValues, wal_segments_ahead : ConfigValues]

\* GrpcToRest.convert_hnsw_config
GrpcToRest_convert_hnsw_config(model) ==
    Ok(Config("http.HnswConfig",
              [ef_construct |-> model.member.ef_construct,
               m |-> model.member.m,
               full_scan_threshold |-> model.member.full_scan_threshold]))

\* GrpcToRest.convert_optimizer_config
GrpcToRest_convert_optimizer_config(model) ==
    Ok(Config("http.OptimizersConfig",
              [default_segment_number |-> model.member.default_segment_number,
               deleted_threshold |-> model.member.deleted_threshold,
               flush_interval_sec |-> model.member.flush_interval_sec,
               indexing_threshold |-> model.member.indexing_threshold,
               max_optimization_threads |-> model.member.max_optimization_threads,
               max_segment_size |-> model.member.max_segment_size,
               memmap_threshold |-> model.member.memmap_threshold,
               payload_indexing_threshold |-> model.member.payload_indexing_threshold,
               vacuum_min_vector_number |-> model.member.vacuum_min_vector_number]))

\* class GrpcToRest defines no convert_wal_config: looking the attribute up
\* raises
GrpcToRest_convert_wal_config(model) == Raises("AttributeError")

\* RestToGrpc.convert_hnsw_config
RestToGrpc_convert_hnsw_config(model) ==
    Ok(Config("grpc.HnswConfigDiff",
              [ef_construct |-> model.member.ef_construct,
               m |-> model.member.m,
               full_scan_threshold |-> model.member.full_scan_threshold]))

\* RestToGrpc.convert_optimizer_config: deleted_threshold is not passed, so
\* the message holds that field's default
RestToGrpc_convert_optimizer_config(model) ==
    Ok(Config("grpc.OptimizersConfigDiff",
              [default_segment_number |-> model.member.default_segment_number,
               deleted_threshold |-> 0,
               flush_interval_sec |-> model.member.flush_interval_sec,
               indexing_threshold |-> model.member.indexing_threshold,
               max_optimization_threads |-> model.member.max_optimization_threads,
               max_segment_size |-> model.member.max_segment_size,
               memmap_threshold |-> model.member.memmap_threshold,
               payload_indexing_threshold |-> model.member.payload_indexing_threshold,
               vacuum_min_vector_number |-> model.member.vacuum_min_vector_number]))

\* RestToGrpc.convert_wal_config
RestToGrpc_convert_wal_config(model) ==
    Ok(Config("grpc.WalConfigDiff",
              [wal_capacity_mb |-> model.member.wal_capacity_mb,
               wal_segments_ahead |-> model.member.wal_segments_ahead]))

ConfigFields(entity) ==
    CASE entity = "HnswConfig" -> HnswFields
      [] entity = "OptimizersConfig" -> OptimizersFields
      [] entity = "WalConfig" -> WalFields

RestConfigs(entity) == {Config("http." \o entity, f) : f \in ConfigFields(entity)}
GrpcConfigs(entity) == {Config("grpc." \o entity \o "Diff", f) : f \in ConfigFields(entity)}

\* The inputs of the converter's scenarios, for each entity
RestInputs(entity) ==
    IF entity \in EnumEntities THEN RestValues(entity)
    ELSE IF entity \in OneOfEntities THEN RestOneOf(entity) \cup {RestEmpty}
    ELSE RestConfigs(entity)

GrpcInputs(entity) ==
    IF entity \in EnumEntities THEN GrpcValues(entity)
    ELSE IF entity \in OneOfEntities THEN GrpcOneOf(entity) \cup {GrpcEmpty(entity)}
    ELSE GrpcConfigs(entity)

Entities == EnumEntities \cup OneOfEntities \cup ConfigEntities

\* The converter's function for an entity, in each direction
GrpcToRest(entity, model) ==
    CASE entity = "Distance" -> GrpcToRest_convert_distance(model)
      [] entity = "UpdateStatus" -> GrpcToRest_convert_update_status(model)
      [] entity = "CollectionStatus" -> GrpcToRest_convert_collection_status(model)
      [] entity = "PayloadSchemaType" -> GrpcToRest_convert_payload_schema_type(model)
      [] entity = "Condition" -> GrpcToRest_convert_condition(model)
      [] entity = "Match" -> GrpcToRest_convert_match(model)
      [] entity = "PointId" -> GrpcToRest_convert_point_id(model)
      [] entity = "HnswConfig" -> GrpcToRest_convert_hnsw_config(model)
      [] entity = "OptimizersConfig" -> GrpcToRest_convert_optimizer_config(model)
      [] entity = "WalConfig" -> GrpcToRest_convert_wal_config(model)

RestToGrpc(entity, model) ==
    CASE entity = "Distance" -> RestToGrpc_convert_distance(model)
      [] entity = "UpdateStatus" -> RestToGrpc_convert_update_stats(model)
      [] entity = "CollectionStatus" -> RestToGrpc_convert_collection_status(model)
      [] entity = "PayloadSchemaType" -> RestToGrpc_convert_payload_schema_type(model)
      [] entity = "Condition" -> RestToGrpc_convert_condition(model)
      [] entity = "Match" -> RestToGrpc_convert_match(model)
      [] entity = "PointId" -> RestToGrpc_convert_extended_point_id(model)
      [] entity = "HnswConfig" -> RestToGrpc_convert_hnsw_config(model)
      [] entity = "OptimizersConfig" -> RestToGrpc_convert_optimizer_config(model)
      [] entity = "WalConfig" -> RestToGrpc_convert_wal_config(model)

\* The direction of the n-th conversion of a round trip
StepConverter(direction, n, entity, model) ==
    IF (direction = "rest_grpc_rest") = (n = 1)
    THEN RestToGrpc(entity, model)
    ELSE GrpcToRest(entity, model)

\* One conversion call of a round trip: the value is converted, or the call
\* raises and the round trip ends
ConvertStep(n) ==
    /\ LET r == StepConverter(conv.direction, n, conv.entity, conv.value)
       IN  /\ conv' = [conv EXCEPT !.stage = n, !.value = r.value, !.error = r.error]
           /\ pc' = IF r.ok /\ n = 1 THEN "convert" ELSE "converted"
    /\ UNCHANGED <<args, dest, faults, loop, locals, iter, collection_name, rc_locals,
                   mc_locals, error, calls>>

\* The first conversion of a round trip
Convert ==
    /\ pc = "convert"
    /\ conv.stage = 0
    /\ ConvertStep(1)

\* The conversion back
ConvertBack ==
    /\ pc = "convert"
    /\ conv.stage = 1
    /\ ConvertStep(2)

\* ------------------------------------------------------------------- runs
NoConversion == [entity |-> None, direction |-> None, input |-> NoValue,
                 stage |-> 0, value |-> NoValue, error |-> None]

\* The state a scenario starts in: position, conversion, and the arguments
\* and endpoints of migrate
Begin(start, conversion, src, dst, req, action, batch, nfaults) ==
    /\ source = src
    /\ dest = dst
    /\ dest_at_start = dst
    /\ requested = req
    /\ on_collision_action = action
    /\ batch_size = batch
    /\ faults = nfaults
    /\ pc = start
    /\ loop = "absent"
    /\ collection_names = AsSet({})
    /\ collisions = {}
    /\ absent_dest_collections = {}
    /\ iter = {}
    /\ collection_name = None
    /\ src_payload_schema = <<>>
    /\ src_config = None
    /\ schema_idx = 1
    /\ records = <<>>
    /\ next_offset = NoOffset
    /\ error = NoError
    /\ calls = <<>>
    /\ conv = conversion

\* The state migrate starts in
Start(src, dst, req, action, batch, nfaults) ==
    Begin("select", NoConversion, src, dst, req, action, batch, nfaults)

Requests(names, n) ==
    {[is_none |-> TRUE, names |-> <<>>]} \cup
    {[is_none |-> FALSE, names |-> l] : l \in SeqsUpTo(names, n)}

\* Whole runs: any set of source collections, each with RunPoints points and
\* the same one-field payload schema, any set of destination collections,
\* any requested list, any policy, the default batch size.
InitRun ==
    \E src_names \in SUBSET Names, dst_names \in SUBSET Names,
       req \in Requests(Names, MaxRequested), action \in CollisionActions,
       nfaults \in 0..MaxFaults :
        Start([c \in Names |->
                  IF c \in src_names
                  THEN SourceCollection(c, RunPoints, <<[field_name |-> "f", type |-> "keyword",
                                                 params |-> None]>>)
                  ELSE Absent],
              [c \in Names |-> IF c \in dst_names THEN OldCollection ELSE Absent],
              req, action, DefaultBatchSize, nfaults)

\* The contents of the one collection of a single-collection run: any
\* number of points paged with any batch size, or any payload schema.
CollectionScenarios ==
    {[n |-> n, batch |-> b, schema |-> <<>>] : n \in 0..MaxPoints, b \in 1..MaxBatch} \cup
    {[n |-> 0, batch |-> DefaultBatchSize, schema |-> s] : s \in PayloadSchemas}

\* Single-collection runs: collection "a" alone at the source, present or
\* not at the destination.
InitCollection ==
    \E sc \in CollectionScenarios, dst_names \in SUBSET {"a"}, req \in Requests({"a"}, 1),
       action \in {RAISE, RECREATE}, nfaults \in 0..MaxFaults :
        Start([c \in Names |->
                  IF c = "a" THEN SourceCollection(c, sc.n, sc.schema) ELSE Absent],
              [c \in Names |-> IF c \in dst_names THEN OldCollection ELSE Absent],
              req, action, sc.batch, nfaults)

\* Runs over several paged collections: every name is at the source with
\* MaxBatch points, "a" is already at the destination, everything is
\* migrated under RECREATE with any batch size.
InitPaged ==
    \E b \in 1..MaxBatch, nfaults \in 0..MaxFaults :
        Start([c \in Names |-> SourceCollection(c, MaxBatch, <<>>)],
              [c \in Names |-> IF c = "a" THEN OldCollection ELSE Absent],
              [is_none |-> TRUE, names |-> <<>>], RECREATE, b, nfaults)

\* Round trips of the converter: every valid member of every enum entity,
\* every one-of value (with a variant and without) and every configuration,
\* from either representation.
InitConvert ==
    \E entity \in Entities, direction \in {"rest_grpc_rest", "grpc_rest_grpc"} :
        \E input \in IF direction = "rest_grpc_rest"
                     THEN RestInputs(entity) ELSE GrpcInputs(entity) :
            Begin("convert",
                  [entity |-> entity, direction |-> direction, input |-> input,
                   stage |-> 0, value |-> input, error |-> None],
                  [c \in Names |-> Absent], [c \in Names |-> Absent],
                  [is_none |-> TRUE, names |-> <<>>], RAISE, DefaultBatchSize, 0)

Init == InitRun \/ InitCollection \/ InitPaged \/ InitConvert

Next ==
    \/ SelectSourceCollections
    \/ FindCollisions
    \/ CollisionPolicy
    \/ ForNext
    \/ ForDone
    \/ RecreateCollection
    \/ CreatePayloadIndex
    \/ ScrollFirst
    \/ ScrollNext
    \/ UploadRecords
    \/ VerifyCount
    \/ ClientFails
    \/ Convert
    \/ ConvertBack

Spec == Init /\ [][Next]_vars


\* ---------------------------------------------------------------- properties
\* A run of migrate (not a converter scenario)
Migrating == pc \notin {"convert", "converted"}

\* select_source_collections has returned: collection_names is what it gave
Selected == Migrating /\ pc # "select" /\ ~(pc = "failed" /\ error.what = "missing")

\* The selected names that existed at the destination when the run began
Colliding == collection_names.set \cap get_collections(dest_at_start)

DestWriteOps == {"recreate_collection", "create_payload_index", "upload_records"}

IsDestWrite(call) == call.client = "dest" /\ call.op \in DestWriteOps

\* The names for which a call of `op` has been issued
CalledFor(op) == {calls[i].name : i \in {j \in 1..Len(calls) : calls[j].op = op}}

\* The requested names the source does not have
Missing == Range(requested.names) \ get_collections(source)

\* C1: under RAISE with a selected name that already exists at the
\* destination, the run never gets past the collision policy, it ends with a
\* ValueError carrying exactly the colliding names, and no write call
\* (recreate_collection, create_payload_index, upload_records) is issued to
\* the destination for any collection; the destination stays as it was.
C1_RaiseNoWrites ==
    (Selected /\ on_collision_action = RAISE /\ Colliding # {}) =>
        /\ pc \in {"find_collisions", "policy", "failed"}
        /\ pc = "failed" => error = Fail("ValueError", "collision", Colliding)
        /\ \A i \in 1..Len(calls) : ~IsDestWrite(calls[i])
        /\ dest = dest_at_start

\* C1 witness: a RAISE run has failed on a collision while a selected name
\* that does not collide was selected too
C1_Witness ==
    /\ pc = "failed"
    /\ error.what = "collision"
    /\ on_collision_action = RAISE
    /\ Colliding # {}
    /\ collection_names.set \ Colliding # {}

\* C2: with a non-empty requested list of which a name is missing at the
\* source, the run ends in select_source_collections with an AssertionError
\* naming exactly the missing names, and no call at all (read or write) is
\* issued to the destination.
C2_MissingFailsFirst ==
    (Migrating /\ Truthy(requested) /\ Missing # {}) =>
        /\ pc \in {"select", "failed"}
        /\ pc = "failed" => error = Fail("AssertionError", "missing", Missing)
        /\ \A i \in 1..Len(calls) : calls[i].client # "dest"
        /\ dest = dest_at_start

\* C2 witness: the run failed on a requested list that names one collection
\* the source has and one it does not, with a non-empty destination
C2_Witness ==
    /\ pc = "failed"
    /\ error.what = "missing"
    /\ Missing # {}
    /\ Range(requested.names) \ Missing # {}
    /\ get_collections(dest) # {}

\* C3: under SKIP every destination write is for a selected name that did
\* not collide, every colliding collection stays exactly as it was, and when
\* the run is done the collections recreated, and the collections uploaded
\* to, are exactly the selected names minus the colliding ones, each holding
\* the source's points.
C3_SkipLeavesCollisions ==
    (Selected /\ on_collision_action = SKIP) =>
        /\ \A i \in 1..Len(calls) :
              IsDestWrite(calls[i]) => calls[i].name \in collection_names.set \ Colliding
        /\ \A c \in Colliding : dest[c] = dest_at_start[c]
        /\ pc = "done" =>
              /\ CalledFor("recreate_collection") = collection_names.set \ Colliding
              /\ CalledFor("upload_records") = collection_names.set \ Colliding
              /\ \A c \in collection_names.set \ Colliding :
                    dest[c].points = source[c].points

\* C3 witness: a SKIP run over a, b, c with b colliding is done
C3_Witness ==
    /\ pc = "done"
    /\ on_collision_action = SKIP
    /\ collection_names.set = {"a", "b", "c"}
    /\ Colliding = {"b"}

\* C4: when a run under RECREATE, or under any value that is neither RAISE
\* nor SKIP, is done, every selected collection, colliding or not, has been
\* recreated once at the destination, every upload to it came after that,
\* and it holds the source's configuration and exactly the source's points
\* (nothing of what a colliding collection held before).
C4_RecreateOverwritesAll ==
    (pc = "done" /\ on_collision_action \notin {RAISE, SKIP}) =>
        \A c \in collection_names.set :
            /\ \E i \in 1..Len(calls) :
                  /\ calls[i].op = "recreate_collection" /\ calls[i].name = c
                  /\ \E j \in (i + 1)..Len(calls) :
                        calls[j].op = "upload_records" /\ calls[j].name = c
                  /\ \A j \in 1..Len(calls) :
                        (calls[j].op = "upload_records" /\ calls[j].name = c) => j > i
            /\ dest[c].config = source[c].config
            /\ dest[c].points = source[c].points

\* C4 witness: a RECREATE run over a colliding and a non-colliding
\* collection is done, and the colliding one had points to overwrite
C4_Witness ==
    /\ pc = "done"
    /\ on_collision_action = RECREATE
    /\ Colliding # {}
    /\ collection_names.set \ Colliding # {}
    /\ \E c \in Colliding : source[c].points # <<>>

\* C7: once select_source_collections has returned, its value is the
\* requested list itself (same elements, same order) when a non-empty list
\* was requested, and the set of all source collection names when the
\* requested names were None.
C7_SelectReturns ==
    Selected =>
        /\ Truthy(requested) =>
              collection_names.kind = "list" /\ collection_names.list = requested.names
        /\ requested.is_none =>
              collection_names.kind = "set"
              /\ collection_names.set = get_collections(source)

\* C7 witness: the list c, a was requested and returned
C7_Witness ==
    /\ Selected
    /\ requested.names = <<"c", "a">>
    /\ collection_names.list = <<"c", "a">>


\* The calls of `op` issued for collection c, in order
CallsOf(op, c) == SelectSeq(calls, LAMBDA k : k.op = op /\ k.name = c)

\* migrate_collection has left its paging loop for collection c
PagingDone(c) ==
    \/ pc = "verify" /\ collection_name = c
    \/ \E i \in 1..Len(calls) : calls[i] = Call("dest", "get_collection", c, <<>>)

\* The batches of a sequence of upload_records calls, concatenated
RECURSIVE Uploaded(_)
Uploaded(uploads) ==
    IF uploads = <<>> THEN <<>> ELSE Head(uploads).arg \o Uploaded(Tail(uploads))

CeilDiv(n, b) == (n + b - 1) \div b

\* ceil(n / b) pairs, and one pair for an empty collection
PairsExpected(n, b) == IF n = 0 THEN 1 ELSE CeilDiv(n, b)

\* The paging of migrate_collection, with Pairs(n, b) scroll/upload pairs
\* for n points and batch size b
Paging(Pairs(_, _)) ==
    /\ \A i \in 1..Len(calls) :
          calls[i].op = "scroll" =>
              IF i = Len(calls)
              THEN pc \in {"upload", "failed"}
              ELSE calls[i + 1] =
                      Call("dest", "upload_records", calls[i].name, calls[i].arg.records)
    /\ \A i \in 1..Len(calls) :
          calls[i].op = "upload_records" => i > 1 /\ calls[i - 1].op = "scroll"
    /\ \A c \in Names :
          LET scrolls == CallsOf("scroll", c)
              uploads == CallsOf("upload_records", c)
          IN  /\ scrolls # <<>> => scrolls[1].arg.offset = NoOffset
              /\ \A k \in 2..Len(scrolls) :
                    /\ scrolls[k - 1].arg.next_offset # NoOffset
                    /\ scrolls[k].arg.offset = scrolls[k - 1].arg.next_offset
              /\ PagingDone(c) =>
                    /\ scrolls[Len(scrolls)].arg.next_offset = NoOffset
                    /\ Len(scrolls) = Pairs(Len(source[c].points), batch_size)
                    /\ Len(uploads) = Len(scrolls)
                    /\ Uploaded(uploads) = source[c].points

\* C5 as amended: the first scroll of a collection carries no offset, each
\* later scroll carries the next offset the previous one returned, every
\* scroll is followed at once by one upload_records of exactly its page,
\* paging stops at the first scroll that returns no next offset, the
\* uploaded batches concatenated are the source's points, and there are
\* ceil(n/b) scroll/upload pairs for n >= 1 points and one pair (of an empty
\* page) for n = 0.
C5_Paging == Paging(PairsExpected)

\* C5 witness: 5 points were paged with batch size 2 in batches of 2, 2, 1
C5_Witness ==
    \E c \in Names :
        /\ PagingDone(c)
        /\ Len(source[c].points) = 5
        /\ batch_size = 2
        /\ LET uploads == CallsOf("upload_records", c)
           IN  /\ Len(uploads) = 3
               /\ Len(uploads[1].arg) = 2
               /\ Len(uploads[2].arg) = 2
               /\ Len(uploads[3].arg) = 1

\* C5 as stated: the same, with ceil(n/b) scroll/upload pairs for every n
C5_Original == Paging(CeilDiv)

\* C6: the count comparison runs with paging over and every page uploaded;
\* it leaves the destination as it is; the run goes on if and only if the
\* two counts are equal and otherwise ends with the count-mismatch
\* AssertionError; and once a run has failed nothing more happens to the
\* destination (no rollback, no retry).
C6_CountCheck ==
    [][/\ pc = "failed" => (pc' = "failed" /\ dest' = dest)
       /\ pc = "verify" =>
             LET scrolls == CallsOf("scroll", collection_name)
                 uploads == CallsOf("upload_records", collection_name)
             IN  /\ scrolls[Len(scrolls)].arg.next_offset = NoOffset
                 /\ Len(uploads) = Len(scrolls)
                 /\ calls[Len(calls)].op = "upload_records"
                 /\ dest' = dest
                 /\ IF Len(source[collection_name].points) = Len(dest[collection_name].points)
                    THEN pc' = "for" /\ error' = NoError
                    ELSE /\ pc' = "failed"
                         /\ error' = Fail("AssertionError", "count_mismatch",
                                          {collection_name})
      ]_vars

\* C6 witness: a run failed on the count check and the destination still
\* holds the points written before it
C6_Witness ==
    /\ pc = "failed"
    /\ error.what = "count_mismatch"
    /\ dest[collection_name].points # <<>>
    /\ Len(dest[collection_name].points) < Len(source[collection_name].points)

\* The destination calls made for a collection, in order
DestOps == SelectSeq(calls, LAMBDA k : k.client = "dest" /\ k.op # "get_collections")

\* The place of a destination call in the processing of its collection
Phase(call) ==
    CASE call.op = "recreate_collection" -> 1
      [] call.op = "create_payload_index" -> 2
      [] call.op = "upload_records" -> 3
      [] call.op = "get_collection" -> 4

\* C8: the destination calls of a run are, collection after collection, one
\* recreate_collection, then the create_payload_index calls, then at least
\* one upload_records, then the count check; a collection is recreated only
\* once; and the calls for another collection, on either client, start only
\* after the count check of the previous one, whose counts are then equal.
C8_Order ==
    /\ \A i \in 1..(Len(calls) - 1) :
          (calls[i].name # None /\ calls[i + 1].name # None
           /\ calls[i].name # calls[i + 1].name) =>
              /\ calls[i] = Call("dest", "get_collection", calls[i].name, <<>>)
              /\ calls[i + 1] = Call("source", "get_collection", calls[i + 1].name, <<>>)
              /\ vectors_count(source[calls[i].name]) = vectors_count(dest[calls[i].name])
    /\ DestOps # <<>> => Phase(DestOps[1]) = 1
    /\ \A i \in 1..(Len(DestOps) - 1) :
          IF DestOps[i].name = DestOps[i + 1].name
          THEN /\ Phase(DestOps[i]) < 4
               /\ Phase(DestOps[i + 1]) > 1
               /\ Phase(DestOps[i]) <= Phase(DestOps[i + 1])
               /\ Phase(DestOps[i + 1]) = 4 => Phase(DestOps[i]) = 3
          ELSE /\ Phase(DestOps[i]) = 4
               /\ Phase(DestOps[i + 1]) = 1
               /\ vectors_count(source[DestOps[i].name]) =
                     vectors_count(dest[DestOps[i].name])
    /\ \A i, j \in 1..Len(DestOps) :
          (i < j /\ Phase(DestOps[i]) = 1 /\ Phase(DestOps[j]) = 1) =>
              DestOps[i].name # DestOps[j].name

\* C8 witness: a run over three collections is done, each recreated,
\* indexed, uploaded to and verified
C8_Witness ==
    /\ pc = "done"
    /\ Cardinality(CalledFor("recreate_collection")) = 3
    /\ Cardinality(CalledFor("create_payload_index")) = 3
    /\ Cardinality(CalledFor("upload_records")) = 3

\* recreate_payload_schema has returned for collection c
IndexingDone(c) ==
    \/ collection_name = c /\ pc \in {"scroll_first", "scroll_next", "upload", "verify"}
    \/ CallsOf("scroll", c) # <<>>

\* C9: the create_payload_index calls for a collection follow the entries
\* of the source's payload schema one for one: the same field names, none
\* added or dropped once the schema is done, each with the field's params
\* as its field_schema when the params are present and its type otherwise.
C9_PayloadIndexes ==
    \A c \in Names :
        LET made == CallsOf("create_payload_index", c)
            schema == source[c].payload_schema
        IN  /\ Len(made) <= Len(schema)
            /\ \A i \in 1..Len(made) :
                  /\ made[i].arg.field_name = schema[i].field_name
                  /\ made[i].arg.field_schema =
                        IF schema[i].params # None THEN schema[i].params ELSE schema[i].type
            /\ IndexingDone(c) =>
                  /\ Len(made) = Len(schema)
                  /\ {dest[c].payload_schema[i].field_name :
                         i \in 1..Len(dest[c].payload_schema)} =
                     {schema[i].field_name : i \in 1..Len(schema)}

\* C9 witness: a schema of two fields, one with index params and one
\* without, has been recreated
C9_Witness ==
    /\ pc = "scroll_first"
    /\ Len(src_payload_schema) = 2
    /\ src_payload_schema[1].params = None
    /\ src_payload_schema[2].params # None
    /\ Len(CallsOf("create_payload_index", collection_name)) = 2

\* C10 as stated: a finished round trip of a valid member of an enum entity
\* (Distance, UpdateStatus, CollectionStatus, PayloadSchemaType), in either
\* direction, raised nothing and gave the member it started from.
C10_EnumRoundTrip ==
    (pc = "converted" /\ conv.entity \in EnumEntities) =>
        /\ conv.error = None
        /\ conv.stage = 2
        /\ conv.value = conv.input


\* The input of a converter scenario is a one-of value with no variant
\* populated
NoVariantInput ==
    /\ conv.entity \in OneOfEntities
    /\ IF conv.direction = "rest_grpc_rest"
       THEN conv.input.type = "NoneType"
       ELSE conv.input = GrpcEmpty(conv.entity)

\* C11: in both directions, converting a Condition, Match or PointId with no
\* variant populated fails with an error and never returns a result: once
\* the first conversion of such an input is over, it has raised ValueError.
C11_NoVariantRaises ==
    (NoVariantInput /\ conv.stage = 1) => conv.error = "ValueError"

\* Two REST one-of values are the same variant with the same payload
SameOneOf(entity, a, b) ==
    /\ a.type = b.type
    /\ IF entity = "Match"
       THEN a.member.type = b.member.type /\ a.member.member = b.member.member
       ELSE a.member = b.member

\* C12: for PointId and Match, converting a valid REST value to gRPC and
\* back returns the same variant with the same payload (id 0, False, 0 and
\* the empty string included): the finished round trip raised nothing and
\* its result is its input.
C12_OneOfRoundTrip ==
    (/\ pc = "converted"
     /\ conv.entity \in {"PointId", "Match"}
     /\ conv.direction = "rest_grpc_rest"
     /\ conv.input.type # "NoneType") =>
        /\ conv.error = None
        /\ conv.stage = 2
        /\ SameOneOf(conv.entity, conv.value, conv.input)

\* C13: HnswConfig, OptimizersConfig and WalConfig are converted field by
\* field in both directions: once the first conversion of a configuration
\* is over, it raised nothing and every field of the input is in the output
\* with the same value (deleted_threshold too).
C13_ConfigFieldByField ==
    (conv.entity \in ConfigEntities /\ conv.stage = 1) =>
        /\ conv.error = None
        /\ conv.value.member = conv.input.member

\* The failures of the per-collection phase: a client call that raises, or
\* the count check
PhaseFailures == FaultPoints \cup {"count_mismatch"}

\* The selected names whose turn in the for-loops has not come
NotStarted == iter \cup (IF loop = "absent" THEN collisions ELSE {})

\* The calls issued for collection c, on either client
CallsNaming(c) == {i \in 1..Len(calls) : calls[i].name = c}

\* No collection was recreated twice and no page was read twice
NoRetry ==
    \A i, j \in 1..Len(calls) :
        (/\ i < j
         /\ calls[i].name = calls[j].name
         /\ calls[i].op = calls[j].op
         /\ calls[i].op \in {"recreate_collection", "scroll"}) =>
            /\ calls[i].op = "scroll"
            /\ calls[i].arg # calls[j].arg

\* C14: the first failure of the per-collection phase (recreate, scroll,
\* upload, count mismatch) ends the whole run: no step is taken once an
\* exception has been raised, the failing step leaves the destination as
\* the earlier steps wrote it, no call was issued for a collection whose
\* turn had not come, and nothing was issued twice.
C14_FirstFailureEndsRun ==
    [][/\ error = NoError
       /\ (error' # NoError /\ error'.what \in PhaseFailures) =>
            /\ pc' = "failed"
            /\ dest' = dest
            /\ \A c \in NotStarted' : CallsNaming(c)' = {} /\ dest'[c] = dest_at_start[c]
            /\ NoRetry']_vars

\* A run failed on its second collection after uploading part of it: the
\* first collection is complete, the current one holds some of its points,
\* a third one was never touched.
C14_Witness ==
    /\ pc = "failed"
    /\ error.what \in PhaseFailures
    /\ \E done \in Names \ (NotStarted \cup {collection_name}) :
        /\ CallsOf("recreate_collection", done) # <<>>
        /\ dest[done].points = source[done].points
    /\ Len(dest[collection_name].points) > 0
    /\ Len(dest[collection_name].points) < Len(source[collection_name].points)
    /\ NotStarted # {}

\* The operations that only read an endpoint
ReadOps == {"get_collections", "get_collection", "scroll"}

\* C15: the source endpoint is only read: every call made on it is
\* get_collections, get_collection or scroll, and no step changes its
\* collections, their configuration or their records, so they are at every
\* step what they were at the start.
C15_SourceOnlyRead ==
    [][/\ source' = source
       /\ \A i \in 1..Len(calls') :
             calls'[i].client = "source" => calls'[i].op \in ReadOps]_vars

\* C15 witness: a finished run that listed the source, fetched and scrolled
\* a collection with points and copied them to the destination
C15_Witness ==
    /\ pc = "done"
    /\ \E c \in Names :
        /\ source[c].points # <<>>
        /\ CallsOf("scroll", c) # <<>>
        /\ CallsOf("get_collection", c) # <<>>
        /\ dest[c].points = source[c].points
        /\ dest_at_start[c] = Absent
    /\ \E i \in 1..Len(calls) : calls[i].client = "source" /\ calls[i].op = "get_collections"

\* The scrolls that start the copy of collection c (those without offset)
FirstScrolls(c) == SelectSeq(CallsOf("scroll", c), LAMBDA k : k.arg.offset = NoOffset)

\* C16: each selected name is recreated and copied at most once, even when
\* the requested list repeats it; the non-colliding and the colliding group
\* are disjoint; and under RECREATE every non-colliding collection is
\* recreated before any colliding one.
C16_OncePerName ==
    /\ \A c \in Names :
          /\ Len(CallsOf("recreate_collection", c)) <= 1
          /\ Len(FirstScrolls(c)) <= 1
    /\ (Selected /\ pc # "find_collisions") =>
          /\ absent_dest_collections \cap collisions = {}
          /\ absent_dest_collections \cap Colliding = {}
          /\ absent_dest_collections \cup Colliding = collection_names.set
    /\ \A i, j \in 1..Len(calls) :
          (/\ i < j
           /\ calls[i].op = "recreate_collection"
           /\ calls[j].op = "recreate_collection") =>
              ~(calls[i].name \in Colliding /\ calls[j].name \notin Colliding)
    /\ (pc = "done" /\ on_collision_action # SKIP) =>
          \A c \in collection_names.set :
              Len(CallsOf("recreate_collection", c)) = 1 /\ Len(FirstScrolls(c)) = 1

\* C16 witness: a finished RECREATE run whose requested list names the
\* colliding collection a twice
C16_Witness ==
    /\ pc = "done"
    /\ on_collision_action = RECREATE
    /\ requested.names = <<"a", "a">>
    /\ Colliding = {"a"}
    /\ Len(CallsOf("recreate_collection", "a")) = 1
    /\ dest["a"].points = source["a"].points

\* The requested list is given and empty
EmptyRequested == ~requested.is_none /\ requested.names = <<>>

\* The argument of a run that omits the requested list
Omitted == [is_none |-> TRUE, names |-> <<>>]

\* C17: an empty requested list is handled exactly like an omitted one:
\* select_source_collections returns what it returns for None, the set of
\* all source collection names, and a finished run has recreated and copied
\* every source collection (every non-colliding one under SKIP).
C17_EmptyListSelectsAll ==
    (Selected /\ EmptyRequested) =>
        /\ collection_names = select_source_collections(get_collections(source), Omitted).value
        /\ collection_names = AsSet(get_collections(source))
        /\ pc = "done" =>
              \A c \in get_collections(source) \
                       (IF on_collision_action = SKIP THEN Colliding ELSE {}) :
                  /\ Len(CallsOf("recreate_collection", c)) = 1
                  /\ dest[c].config = source[c].config
                  /\ dest[c].points = source[c].points

\* C17 witness: a finished run with the empty list requested that migrated
\* the two collections of its source
C17_Witness ==
    /\ pc = "done"
    /\ EmptyRequested
    /\ Cardinality(get_collections(source)) > 1
    /\ \A c \in get_collections(source) :
          CallsOf("recreate_collection", c) # <<>> /\ dest[c].points = source[c].points
    /\ \E c \in get_collections(source) : source[c].points # <<>>

====
